---- MODULE Spec2Model ----
(***************************************************************************)
(* Bonfire (src/src/lib/index.ts): the Router's route table and matching,  *)
(* and the Dispatcher (Bonfire.handleRequest / executeMiddleware) running  *)
(* the middleware chain of async functions on the JavaScript event loop    *)
(* (one call stack, a FIFO microtask queue, macrotasks for I/O events).    *)
(*                                                                         *)
(* Specifications: RouterSpec (registrations, then a match), RegistrySpec  *)
(* (recorded registrations, pairs registered again), Spec (one request     *)
(* through any middleware chain), ConcurrentSpec (two requests in flight), *)
(* StaticSpec (staticMiddleware over a file system), ResponseSpec (the     *)
(* calls on one Response Context, renders included, and the flush).        *)
(*                                                                         *)
(* Strings that the code splits or slices (paths, patterns) are sequences  *)
(* of one-character strings; other strings are TLA+ strings.               *)
(***************************************************************************)
EXTENDS Integers, Sequences, FiniteSets, TLC

VARIABLES
  routes,       \* Router.routes: method -> insertion-ordered <<path, handler>> entries
  lastMatch,    \* the last call of Router.match made directly: arguments and result
  phase,        \* "setup" (use) | "serving" (after listen); "router" | "registry" |
                \* "lookup" (registration, then matching); "context"
  middlewares,  \* Bonfire.middlewares
  inbox,        \* requests the transport has still to deliver to handleRequest
  req,          \* per request: the Request Context (requestContext)
  res,          \* per request: statusCode, headers, responseBody of handleRequest
  out,          \* per request: what the ServerResponse was given (writeHead, end)
  fr,           \* per activation of an async function of a request: its position
  stack,        \* the JavaScript call stack, innermost activation last
  mq,           \* the microtask queue (promise reactions), oldest first
  log,          \* per request: history of what its chain participants did
  snap,         \* per request: the Response Context when a step returned without next
  calls,        \* history of the calls executed on the Response Context of request 1
  rendering,    \* the activations of responseContext.render suspended at their await
  regs          \* history of the calls of Router.register: <<method, path, handler>>

vars == <<routes, lastMatch, phase, middlewares, inbox, req, res, out, fr, stack, mq,
          log, snap, calls, rendering, regs>>

\* what only the Response Context and the registration specifications change
cvars == <<calls, rendering, regs>>

\* everything handleRequest touches
dvars == <<inbox, req, res, out, fr, stack, mq, log, snap>>

----------------------------------------------------------------------------
(* Bounds *)

\* most entries the route table holds in the Router specification
MaxRoutes == 2

\* most middleware steps registered with use()
MaxMiddlewares == 2

\* most calls made on the Response Context in the Response Context specification
MaxCalls == 3

\* most calls of register in the registration specification
MaxRegistrations == 3

----------------------------------------------------------------------------
(* Strings as character sequences *)

\* String.prototype.split("/"): the pieces between the separators
RECURSIVE SplitFrom(_, _, _, _)
SplitFrom(s, i, cur, acc) ==
  IF i > Len(s) THEN Append(acc, cur)
  ELSE IF s[i] = "/" THEN SplitFrom(s, i + 1, <<>>, Append(acc, cur))
  ELSE SplitFrom(s, i + 1, Append(cur, s[i]), acc)

Split(s) == SplitFrom(s, 1, <<>>, <<>>)

\* String.prototype.startsWith(":")
StartsWithColon(seg) == Len(seg) > 0 /\ seg[1] = ":"

\* String.prototype.slice(1)
Slice1(seg) == IF Len(seg) = 0 THEN <<>> ELSE Tail(seg)

----------------------------------------------------------------------------
(* Router *)

SupportedMethods == {"GET", "POST", "PUT", "DELETE", "PATCH", "HEAD", "OPTIONS"}

\* `undefined` as a handler
NoHandler == "undefined"

\* an empty Record<string, string> / Map
EmptyMap == [k \in {} |-> <<>>]

\* obj[key] = value, map.set(key, value) on the entries of a Record
MapSet(m, key, value) ==
  [k \in DOMAIN m \cup {key} |-> IF k = key THEN value ELSE m[k]]

\* new Router(): one empty Map per supported method
RouterNew == [m \in SupportedMethods |-> <<>>]

\* variant: the entries are a list that every registration is pushed onto
OrderedSetAppends(entries, path, handler) ==
  Append(entries, [path |-> path, handler |-> handler])

\* variant: a key that is set again is deleted first and so moves to the end
OrderedSetMovesToEnd(entries, path, handler) ==
  Append(SelectSeq(entries, LAMBDA e : e.path # path),
         [path |-> path, handler |-> handler])

\* Map.prototype.set on an insertion-ordered Map: an existing key keeps its
\* position and takes the new value, a new key goes to the end
OrderedSet(entries, path, handler) ==
  IF \E i \in 1..Len(entries) : entries[i].path = path
  THEN [i \in 1..Len(entries) |->
          IF entries[i].path = path
          THEN [path |-> path, handler |-> handler]
          ELSE entries[i]]
  ELSE Append(entries, [path |-> path, handler |-> handler])

\* Router.register
RegisterRoute(rt, method, path, handler) ==
  IF method \in DOMAIN rt
  THEN [rt EXCEPT ![method] = OrderedSet(rt[method], path, handler)]
  ELSE rt

\* variant: the pattern only has to be a prefix of the path
SameLengthPrefix(routeParts, urlParts) == Len(routeParts) <= Len(urlParts)

\* the length test of Router.match: `routeParts.length !== urlParts.length`
SameLength(routeParts, urlParts) == Len(routeParts) = Len(urlParts)

\* the inner loop of Router.match from index i on, with the params so far
RECURSIVE SegLoop(_, _, _, _)
SegLoop(routeParts, urlParts, i, params) ==
  IF i > Len(routeParts) THEN [match |-> TRUE, params |-> params]
  ELSE IF StartsWithColon(routeParts[i])
       THEN SegLoop(routeParts, urlParts, i + 1,
                    MapSet(params, Slice1(routeParts[i]), urlParts[i]))
       ELSE IF routeParts[i] # urlParts[i]
            THEN [match |-> FALSE, params |-> params]
            ELSE SegLoop(routeParts, urlParts, i + 1, params)

\* one iteration of the outer loop: does this entry match, and with which params
TryRoute(routePath, url) ==
  LET routeParts == Split(routePath)
      urlParts   == Split(url)
  IN IF ~SameLength(routeParts, urlParts)
     THEN [match |-> FALSE, params |-> EmptyMap]
     ELSE SegLoop(routeParts, urlParts, 1, EmptyMap)

\* variant: `params` declared once, outside the loop over the entries
RECURSIVE MatchFromAcc(_, _, _, _)
MatchFromAcc(entries, url, j, params) ==
  IF j > Len(entries) THEN [handler |-> NoHandler, params |-> EmptyMap]
  ELSE LET routeParts == Split(entries[j].path)
           urlParts   == Split(url)
           t == IF ~SameLength(routeParts, urlParts)
                THEN [match |-> FALSE, params |-> params]
                ELSE SegLoop(routeParts, urlParts, 1, params)
       IN IF t.match
          THEN [handler |-> entries[j].handler, params |-> t.params]
          ELSE MatchFromAcc(entries, url, j + 1, t.params)

MatchFromSharedParams(entries, url, j) == MatchFromAcc(entries, url, j, EmptyMap)

\* variant: an all-literal pattern that matches is preferred to an earlier
\* pattern with parameters
MatchFromMostSpecific(entries, url, j) ==
  LET hits == {i \in j..Len(entries) : TryRoute(entries[i].path, url).match}
      lits == {i \in hits :
                 \A n \in 1..Len(Split(entries[i].path)) :
                    ~StartsWithColon(Split(entries[i].path)[n])}
      pick(S) == CHOOSE i \in S : \A k \in S : i <= k
  IN IF hits = {} THEN [handler |-> NoHandler, params |-> EmptyMap]
     ELSE LET w == IF lits # {} THEN pick(lits) ELSE pick(hits)
          IN [handler |-> entries[w].handler,
              params |-> TryRoute(entries[w].path, url).params]

\* the outer loop of Router.match over the entries from index j on
RECURSIVE MatchFrom(_, _, _)
MatchFrom(entries, url, j) ==
  IF j > Len(entries) THEN [handler |-> NoHandler, params |-> EmptyMap]
  ELSE LET t == TryRoute(entries[j].path, url)
       IN IF t.match
          THEN [handler |-> entries[j].handler, params |-> t.params]
          ELSE MatchFrom(entries, url, j + 1)

\* Router.match
Match(rt, method, url) ==
  IF method \notin DOMAIN rt
  THEN [handler |-> NoHandler, params |-> EmptyMap]
  ELSE MatchFrom(rt[method], url, 1)

\* no direct call of Router.match yet
NoMatchCall ==
  [called |-> FALSE, method |-> "", url |-> <<>>,
   handler |-> NoHandler, params |-> EmptyMap]

----------------------------------------------------------------------------
(* Response Context, Request Context and transport of handleRequest *)

ReqIds == {1, 2}

\* statusCode = 200, headers = new Map(), responseBody undefined (<<>>)
ResponseNew == [statusCode |-> 200, headers |-> [k \in {} |-> ""], body |-> <<>>]

\* responseContext.status
Status(rc, code) == [rc EXCEPT !.statusCode = code]

\* variant: send also labels the body as plain text
SendTextPlain(rc, data) ==
  [rc EXCEPT !.body = <<data>>,
             !.headers = [k \in DOMAIN rc.headers \cup {"Content-Type"} |->
                            IF k = "Content-Type" THEN "text/plain" ELSE rc.headers[k]]]

\* variant: the text is appended to the body already there
SendAppends(rc, data) ==
  [rc EXCEPT !.body = IF @ = <<>> THEN <<data>> ELSE <<@[1] \o data>>]

\* responseContext.send
Send(rc, data) == [rc EXCEPT !.body = <<data>>]

\* variant: a header that is already set keeps its first value
SetHeaderKeepsFirst(rc, key, value) ==
  [rc EXCEPT !.headers =
     [k \in DOMAIN rc.headers \cup {key} |->
        IF k \in DOMAIN rc.headers THEN rc.headers[k] ELSE value]]

\* responseContext.setHeader
SetHeader(rc, key, value) ==
  [rc EXCEPT !.headers =
     [k \in DOMAIN rc.headers \cup {key} |-> IF k = key THEN value ELSE rc.headers[k]]]

\* JSON.stringify of an object with one string member, given as <<name, value>>
JsonStringify(data) == "{\"" \o data[1] \o "\":\"" \o data[2] \o "\"}"

\* responseContext.json
Json(rc, data) ==
  [SetHeader(rc, "Content-Type", "application/json") EXCEPT
     !.body = <<JsonStringify(data)>>]

\* the fallback of executeMiddleware: responseContext.status(404).send("Not Found")
NotFound(rc) == Send(Status(rc, 404), "Not Found")

\* the template engine (this.templateEngine) on the templates of the model: the
\* default engine reads a file and resolves ("home") or rejects ("missing")
\* later; a custom engine may throw within the call ("broken")
TemplateEngine(templatePath) ==
  CASE templatePath = "home"    -> [how |-> "resolves", text |-> "<h1>Home</h1>"]
    [] templatePath = "missing" -> [how |-> "rejects", text |-> "ENOENT: no such file"]
    [] templatePath = "broken"  -> [how |-> "throws", text |-> "bad template"]

\* the try branch of responseContext.render after the await
RenderSuccess(rc, rendered) ==
  [SetHeader(rc, "Content-Type", "text/html") EXCEPT !.body = <<rendered>>]

\* the catch branch of responseContext.render
RenderFailure(rc, message) ==
  [SetHeader(rc, "Content-Type", "text/plain") EXCEPT
     !.statusCode = 500,
     !.body = <<"Error rendering template: " \o message>>]

\* variant: render without its try/catch: the failure leaves the function
RenderSettledNoCatch(rc, engine) ==
  IF engine.how = "resolves"
  THEN [rc |-> RenderSuccess(rc, engine.text), promise |-> "fulfilled"]
  ELSE [rc |-> rc, promise |-> "rejected"]

\* responseContext.render once the engine's result is known: what it leaves in
\* the Response Context and how its own promise settles
RenderSettled(rc, engine) ==
  IF engine.how = "resolves"
  THEN [rc |-> RenderSuccess(rc, engine.text), promise |-> "fulfilled"]
  ELSE [rc |-> RenderFailure(rc, engine.text), promise |-> "fulfilled"]

\* a ServerResponse nothing was written to
TransportNew ==
  [writeHead |-> 0, end |-> 0, statusCode |-> 0,
   headers |-> [k \in {} |-> ""], body |-> <<>>]

\* variant: the head is written but the response is never ended
FlushNoEnd(o, rc) ==
  [o EXCEPT !.writeHead = @ + 1, !.statusCode = rc.statusCode, !.headers = rc.headers]

\* the end of handleRequest: res.setHeader for each header, res.writeHead(statusCode),
\* res.end(responseBody)
Flush(o, rc) ==
  [o EXCEPT !.writeHead = @ + 1, !.end = @ + 1, !.statusCode = rc.statusCode,
            !.headers = rc.headers, !.body = rc.body]

\* a request as the transport delivers it: method, url, content-type header and
\* the text of the body
Incoming(method, url, ctype, text) ==
  [method |-> method, url |-> url, ctype |-> ctype, text |-> text]

\* `req.url || "/"`
UrlOrRoot(url) == IF url = <<>> THEN <<"/">> ELSE url

\* variant: the params are filled in from the route table when the context is built
RequestNewEagerParams(in) ==
  [method |-> in.method, url |-> UrlOrRoot(in.url), ctype |-> in.ctype,
   text |-> in.text, body |-> <<>>,
   params |-> Match(routes, in.method, UrlOrRoot(in.url)).params, ended |-> FALSE]

\* the Request Context built by handleRequest; `ended` is the stream's state
\* (whether "end" was emitted), `body` is <<>> for null
RequestNew(in) ==
  [method |-> in.method, url |-> UrlOrRoot(in.url), ctype |-> in.ctype,
   text |-> in.text, body |-> <<>>, params |-> EmptyMap, ended |-> FALSE]

\* a request slot before the transport delivers a request
RequestNone == RequestNew(Incoming("", <<>>, "", ""))

\* `contentType?.includes("application/json")`
IncludesJson(ctype) ==
  ctype \in {"application/json", "application/json; charset=utf-8"}

\* JSON.parse on the body texts of the request pool: does it return (or throw)
JsonParses(text) == text = "{\"name\":\"x\"}"

----------------------------------------------------------------------------
(* Middleware and handler functions as programs *)

\* one statement of a middleware or handler
Op(op, code, k, v) == [op |-> op, code |-> code, k |-> k, v |-> v]
OStatus(code)    == Op("status", code, "", "")
OSend(text)      == Op("send", 0, "", text)
OJson(k, v)      == Op("json", 0, k, v)
OSetHeader(k, v) == Op("setHeader", 0, k, v)
OBodyNull        == Op("bodyNull", 0, "", "")   \* req.body = null
ONext            == Op("next", 0, "", "")       \* next();
OAwaitNext       == Op("awaitNext", 0, "", "")  \* await next();
OTick            == Op("tick", 0, "", "")       \* await of a settled value
OIo              == Op("io", 0, "", "")         \* await of an I/O promise
OAwaitEnd        == Op("awaitEnd", 0, "", "")   \* await new Promise(... req.on("end") ...)
OThrow           == Op("throw", 0, "", "")      \* throw new Error(...)
ORender(tpl)     == Op("render", 0, tpl, "")    \* res.render(tpl)

\* jsonMiddleware's function body up to and after its await; the "end"
\* callback inside the promise is the action RequestEnd
JsonMiddlewareProg(rq) ==
  IF rq.method = "GET" \/ rq.method = "HEAD" THEN <<ONext>>
  ELSE IF IncludesJson(rq.ctype) THEN <<OBodyNull, OAwaitEnd, ONext>>
  ELSE <<ONext>>

\* path.join(a, b): the two joined by "/" and normalized: empty and "."
\* segments dropped, ".." taking back the segment before it (and kept where
\* there is none), a trailing "/" kept; the result as its segments
RECURSIVE NormalizeFrom(_, _, _)
NormalizeFrom(parts, i, acc) ==
  IF i > Len(parts) THEN acc
  ELSE IF parts[i] = <<>> \/ parts[i] = <<".">> THEN NormalizeFrom(parts, i + 1, acc)
  ELSE IF parts[i] = <<".", ".">>
       THEN IF acc # <<>> /\ acc[Len(acc)] # <<".", ".">>
            THEN NormalizeFrom(parts, i + 1, SubSeq(acc, 1, Len(acc) - 1))
            ELSE NormalizeFrom(parts, i + 1, Append(acc, parts[i]))
  ELSE NormalizeFrom(parts, i + 1, Append(acc, parts[i]))

PathJoin(a, b) ==
  LET joined == a \o <<"/">> \o b
  IN [segs |-> NormalizeFrom(Split(joined), 1, <<>>),
      slash |-> joined[Len(joined)] = "/"]

\* String.prototype.toLowerCase on the characters of the file names of the model
ToLowerCase(str) ==
  [n \in 1..Len(str) |->
     CASE str[n] = "J" -> "j" [] str[n] = "S" -> "s" [] OTHER -> str[n]]

\* path.extname: the last segment from its last "." on, "" when it has none
\* or only a leading one
ExtName(path) ==
  IF path.segs = <<>> THEN <<>>
  ELSE LET base == path.segs[Len(path.segs)]
           dots == {n \in 2..Len(base) : base[n] = "."}
       IN IF dots = {} THEN <<>>
          ELSE SubSeq(base, CHOOSE n \in dots : \A m \in dots : m <= n, Len(base))

\* the mimeTypes table of staticMiddleware with its default
MimeType(ext) ==
  CASE ext = <<".", "h", "t", "m", "l">> -> "text/html"
    [] ext = <<".", "j", "s">>           -> "application/javascript"
    [] ext = <<".", "c", "s", "s">>      -> "text/css"
    [] ext = <<".", "p", "n", "g">>      -> "image/png"
    [] ext = <<".", "j", "p", "g">>      -> "image/jpeg"
    [] ext = <<".", "g", "i", "f">>      -> "image/gif"
    [] OTHER                             -> "application/octet-stream"

\* the directory handed to staticMiddleware: "p"
StaticRoot == <<"p">>

\* the file system: the directory p with the files a.js, b.JS, r (no
\* extension), k.css (which cannot be read) and the directory d; next to p
\* the file s.css
FileAt(segs) ==
  CASE segs = << <<"p">> >> -> [kind |-> "dir", content |-> "", readable |-> FALSE]
    [] segs = << <<"p">>, <<"a", ".", "j", "s">> >> ->
         [kind |-> "file", content |-> "js()", readable |-> TRUE]
    [] segs = << <<"p">>, <<"b", ".", "J", "S">> >> ->
         [kind |-> "file", content |-> "JS()", readable |-> TRUE]
    [] segs = << <<"p">>, <<"r">> >> ->
         [kind |-> "file", content |-> "raw", readable |-> TRUE]
    [] segs = << <<"p">>, <<"k", ".", "c", "s", "s">> >> ->
         [kind |-> "file", content |-> "", readable |-> FALSE]
    [] segs = << <<"p">>, <<"d">> >> -> [kind |-> "dir", content |-> "", readable |-> FALSE]
    [] segs = << <<"s", ".", "c", "s", "s">> >> ->
         [kind |-> "file", content |-> "secret", readable |-> TRUE]
    [] OTHER -> [kind |-> "none", content |-> "", readable |-> FALSE]

\* fs.stat(filePath): "file", "dir", or "error" when it rejects (nothing there,
\* or a trailing "/" after a regular file)
Stat(path) ==
  LET e == FileAt(path.segs)
  IN IF e.kind = "none" \/ (e.kind = "file" /\ path.slash) THEN "error" ELSE e.kind

\* staticMiddleware's function body: the awaits of fs.stat and fs.readFile, then
\* setHeader and send, or (not a file, or one of the two rejected) next()
StaticMiddlewareProg(rq) ==
  LET filePath == PathJoin(StaticRoot, rq.url)
  IN IF Stat(filePath) # "file" THEN <<OIo, ONext>>
     ELSE IF ~FileAt(filePath.segs).readable THEN <<OIo, OIo, ONext>>
     ELSE <<OIo, OIo,
            OSetHeader("Content-Type", MimeType(ToLowerCase(ExtName(filePath)))),
            OSend(FileAt(filePath.segs).content)>>

\* the middleware functions handed to use()
MiddlewareKinds == {"logger", "json", "deny", "asyncDeny", "after", "onion", "throws"}

\* declared `async` (returns a promise) or a plain function
IsAsync(kind) == kind \in {"json", "static", "asyncDeny", "onion", "slow", "tick"}

MiddlewareProg(kind, rq) ==
  CASE kind = "logger"    -> <<ONext>>
    [] kind = "json"      -> JsonMiddlewareProg(rq)
    [] kind = "static"    -> StaticMiddlewareProg(rq)
    [] kind = "deny"      -> <<OStatus(401), OSend("no")>>
    [] kind = "asyncDeny" -> <<OIo, OStatus(401), OSend("no")>>
    [] kind = "after"     -> <<ONext, OSetHeader("X-After", "1")>>
    [] kind = "onion"     -> <<OAwaitNext, OSetHeader("X-Time", "1")>>
    [] kind = "throws"    -> <<OThrow>>

\* the handlers the application registers
HandlerProg(handler) ==
  CASE handler = "hello"  -> <<OJson("message", "Hello World")>>
    [] handler = "user"   -> <<OSetHeader("X-User", "1"), OSend("user")>>
    [] handler = "create" -> <<OStatus(201), OJson("created", "x")>>
    [] handler = "slow"   -> <<OIo, OSend("late")>>
    [] handler = "tick"   -> <<OTick, OTick, OSend("tock")>>
    [] handler = "boom"   -> <<OThrow>>

\* router.get("/", ...), get("/users/:id", ...), post("/users", ...),
\* get("/slow", ...), get("/tick", ...), get("/boom", ...)
AppRoutes ==
  LET r1 == RegisterRoute(RouterNew, "GET", <<"/">>, "hello")
      r2 == RegisterRoute(r1, "GET",
              <<"/", "u", "s", "e", "r", "s", "/", ":", "i", "d">>, "user")
      r3 == RegisterRoute(r2, "POST", <<"/", "u", "s", "e", "r", "s">>, "create")
      r4 == RegisterRoute(r3, "GET", <<"/", "s", "l", "o", "w">>, "slow")
      r5 == RegisterRoute(r4, "GET", <<"/", "t", "i", "c", "k">>, "tick")
  IN RegisterRoute(r5, "GET", <<"/", "b", "o", "o", "m">>, "boom")

\* the requests the transport delivers
RequestPool ==
  { Incoming("GET", <<"/">>, "", ""),
    Incoming("GET", <<>>, "", ""),
    Incoming("GET", <<"/", "u", "s", "e", "r", "s", "/", "4", "2">>, "", ""),
    Incoming("GET", <<"/", "s", "l", "o", "w">>, "", ""),
    Incoming("GET", <<"/", "t", "i", "c", "k">>, "", ""),
    Incoming("GET", <<"/", "b", "o", "o", "m">>, "", ""),
    Incoming("GET", <<"/", "u", "n", "k", "n", "o", "w", "n">>, "", ""),
    Incoming("TRACE", <<"/">>, "", ""),
    Incoming("POST", <<"/", "u", "s", "e", "r", "s">>, "application/json",
             "{\"name\":\"x\"}"),
    Incoming("POST", <<"/", "u", "s", "e", "r", "s">>,
             "application/json; charset=utf-8", "{\"name\":"),
    Incoming("POST", <<"/", "u", "s", "e", "r", "s">>, "application/json", ""),
    Incoming("POST", <<"/", "u", "s", "e", "r", "s">>, "text/plain", "hi"),
    Incoming("POST", <<"/", "s", "l", "o", "w">>, "application/json",
             "{\"name\":\"x\"}") }

----------------------------------------------------------------------------
(* Activations of the async functions of a request on the event loop *)

\* <<r, "D", 0>>: handleRequest of request r; <<r, "E", i>>: executeMiddleware(i);
\* <<r, "M", i>>: this.middlewares[i](...); <<r, "H", 0>>: the matched handler
Frames == ReqIds \X {"D", "E", "M", "H"} \X (0..(MaxMiddlewares + 1))

NoFrame == <<0, "none", 0>>
IoEvent == <<0, "io", 0>>        \* an I/O promise (fs, timers, a database)
EndEvent == <<0, "end", 0>>      \* the promise jsonMiddleware resolves on "end"
Never == <<0, "never", 0>>       \* a promise nothing resolves any more

\* st: idle (not called), active (on the call stack), blocked (suspended at an
\* await of something pending), queued (its reaction is in the microtask queue),
\* done (returned / promise fulfilled), failed (threw / promise rejected);
\* pc: the next statement; ph: where it is around a call it makes
FrameIdle == [st |-> "idle", pc |-> 1, ph |-> "run", wait |-> NoFrame]

Top == stack[Len(stack)]
Popped == SubSeq(stack, 1, Len(stack) - 1)

\* variant: the continuation skips a step
NextIndexSkip(index) == index + 2

\* the continuation handed to a step: `() => executeMiddleware(index + 1)`
NextIndex(index) == index + 1

\* variant: the request being served is kept in one place shared by all requests
MatchedShared(r) == Match(routes, req[1].method, req[1].url)

\* `this.router.match(req.method || "GET", url)` of a request
Matched(r) == Match(routes, req[r].method, req[r].url)

\* the function a frame runs
KindOf(f) ==
  IF f[2] = "M" THEN middlewares[f[3] + 1] ELSE Matched(f[1]).handler

\* its statements
Prog(f) ==
  IF f[2] = "M" THEN MiddlewareProg(KindOf(f), req[f[1]]) ELSE HandlerProg(KindOf(f))

\* the activation a frame called and (if it awaits) awaits
Callee(f) ==
  CASE f[2] = "D" -> <<f[1], "E", 0>>
    [] f[2] = "E" -> IF f[3] < Len(middlewares) THEN <<f[1], "M", f[3]>>
                     ELSE <<f[1], "H", 0>>
    [] f[2] = "M" -> <<f[1], "E", NextIndex(f[3])>>

\* the frames suspended at an await of f's promise
Waiters(f) == {g \in Frames : fr[g].st = "blocked" /\ fr[g].wait = f}

\* a set of frames as a sequence (the model never has more than one waiter)
RECURSIVE AsSeq(_)
AsSeq(S) == IF S = {} THEN <<>>
            ELSE LET g == CHOOSE x \in S : TRUE IN <<g>> \o AsSeq(S \ {g})

\* f returns (done) or throws (failed): its promise settles and the reactions
\* of the frames awaiting it are queued
Settled(f, outcome) ==
  [g \in Frames |->
     IF g = f THEN [fr[f] EXCEPT !.st = outcome]
     ELSE IF g \in Waiters(f) THEN [fr[g] EXCEPT !.st = "queued", !.wait = NoFrame]
     ELSE fr[g]]

Logged(r, type, f) == [log EXCEPT ![r] = Append(@, <<type, f[2], f[3]>>)]

\* did step i of request r invoke its continuation
CalledNext(r, i) == \E n \in 1..Len(log[r]) : log[r][n] = <<"next", "M", i>>

Running(f) ==
  /\ stack # <<>>
  /\ Top = f
  /\ fr[f].st = "active"

\* f is about to execute statement `op`
AtOp(f, ops) ==
  /\ Running(f)
  /\ f[2] \in {"M", "H"}
  /\ fr[f].ph = "run"
  /\ fr[f].pc <= Len(Prog(f))
  /\ Prog(f)[fr[f].pc].op \in ops

----------------------------------------------------------------------------
(* Setup: app.use(...) and app.listen(...) *)

\* Bonfire.use
Use(kind) ==
  /\ phase = "setup"
  /\ Len(middlewares) < MaxMiddlewares
  /\ middlewares' = Append(middlewares, kind)
  /\ UNCHANGED <<cvars, routes, lastMatch, phase, dvars>>

\* Bonfire.listen: the transport starts to deliver requests
Listen ==
  /\ phase = "setup"
  /\ phase' = "serving"
  /\ UNCHANGED <<cvars, routes, lastMatch, middlewares, dvars>>

----------------------------------------------------------------------------
(* handleRequest and executeMiddleware *)

\* handleRequest up to its call of executeMiddleware(0): a macrotask of the
\* http server; it builds both contexts and calls executeMiddleware(0)
HandleRequest(r, in) ==
  /\ phase = "serving"
  /\ r \in inbox
  /\ stack = <<>> /\ mq = <<>>
  /\ inbox' = inbox \ {r}
  /\ req' = [req EXCEPT ![r] = RequestNew(in)]
  /\ res' = [res EXCEPT ![r] = ResponseNew]
  /\ fr' = [fr EXCEPT ![<<r, "D", 0>>] = [FrameIdle EXCEPT !.st = "active", !.ph = "await"],
                      ![<<r, "E", 0>>] = [FrameIdle EXCEPT !.st = "active"]]
  /\ stack' = << <<r, "D", 0>>, <<r, "E", 0>> >>
  /\ UNCHANGED <<cvars, routes, lastMatch, phase, middlewares, out, mq, log, snap>>

\* executeMiddleware(index) with index < middlewares.length: it calls the step
ExecuteStep(r, i) ==
  LET e == <<r, "E", i>>
      m == <<r, "M", i>>
  IN /\ Running(e) /\ fr[e].ph = "run"
     /\ i < Len(middlewares)
     /\ fr' = [fr EXCEPT ![e].ph = "await", ![m] = [FrameIdle EXCEPT !.st = "active"]]
     /\ stack' = Append(stack, m)
     /\ log' = Logged(r, "start", m)
     /\ UNCHANGED <<cvars, routes, lastMatch, phase, middlewares, inbox, req, res, out, mq, snap>>

\* executeMiddleware(index) with index >= middlewares.length and a matched
\* handler: it sets params and calls the handler
ExecuteHandler(r, i) ==
  LET e == <<r, "E", i>>
      h == <<r, "H", 0>>
  IN /\ Running(e) /\ fr[e].ph = "run"
     /\ i >= Len(middlewares)
     /\ Matched(r).handler # NoHandler
     /\ req' = [req EXCEPT ![r].params = Matched(r).params]
     /\ fr' = [fr EXCEPT ![e].ph = "await", ![h] = [FrameIdle EXCEPT !.st = "active"]]
     /\ stack' = Append(stack, h)
     /\ log' = Logged(r, "start", h)
     /\ UNCHANGED <<cvars, routes, lastMatch, phase, middlewares, inbox, res, out, mq, snap>>

\* executeMiddleware(index) with index >= middlewares.length and no handler:
\* the 404 fallback, and it returns
ExecuteNotFound(r, i) ==
  LET e == <<r, "E", i>>
  IN /\ Running(e) /\ fr[e].ph = "run"
     /\ i >= Len(middlewares)
     /\ Matched(r).handler = NoHandler
     /\ req' = [req EXCEPT ![r].params = Matched(r).params]
     /\ res' = [res EXCEPT ![r] = NotFound(@)]
     /\ fr' = Settled(e, "done")
     /\ mq' = mq \o AsSeq(Waiters(e))
     /\ stack' = Popped
     /\ log' = [log EXCEPT ![r] = @ \o << <<"start", "NF", 0>>, <<"end", "E", i>> >>]
     /\ UNCHANGED <<cvars, routes, lastMatch, phase, middlewares, inbox, out, snap>>

\* `await <call>` once the call has returned control: of handleRequest
\* (await executeMiddleware(0)), of executeMiddleware (await of the step or the
\* handler) and of a step (await next()). A plain function that threw has thrown
\* into the caller; a settled callee queues the caller's reaction; a pending one
\* leaves the caller suspended.
AwaitCallee(f) ==
  LET c == Callee(f)
      r == f[1]
  IN /\ Running(f) /\ fr[f].ph = "await"
     /\ IF fr[c].st = "failed" /\ c[2] \in {"M", "H"} /\ ~IsAsync(KindOf(c))
        THEN /\ fr' = Settled(f, "failed")
             /\ mq' = mq \o AsSeq(Waiters(f))
             /\ log' = Logged(r, "fail", f)
        ELSE IF fr[c].st \in {"done", "failed"}
        THEN /\ fr' = [fr EXCEPT ![f].st = "queued", ![f].ph = "resume"]
             /\ mq' = Append(mq, f)
             /\ log' = log
        ELSE /\ fr' = [fr EXCEPT ![f].st = "blocked", ![f].ph = "resume", ![f].wait = c]
             /\ mq' = mq
             /\ log' = log
     /\ stack' = Popped
     /\ UNCHANGED <<cvars, routes, lastMatch, phase, middlewares, inbox, req, res, out, snap>>

\* executeMiddleware(index) after its await: it returns, or rethrows the
\* rejection of what it awaited
ResumeExecute(r, i) ==
  LET e == <<r, "E", i>>
      outcome == IF fr[Callee(e)].st = "failed" THEN "failed" ELSE "done"
  IN /\ Running(e) /\ fr[e].ph = "resume"
     /\ fr' = Settled(e, outcome)
     /\ mq' = mq \o AsSeq(Waiters(e))
     /\ stack' = Popped
     /\ log' = Logged(r, IF outcome = "done" THEN "end" ELSE "fail", e)
     /\ UNCHANGED <<cvars, routes, lastMatch, phase, middlewares, inbox, req, res, out, snap>>

\* handleRequest after `await executeMiddleware(0)` fulfilled: the headers, the
\* status and the body are handed to the ServerResponse
ResumeFlush(r) ==
  LET d == <<r, "D", 0>>
  IN /\ Running(d) /\ fr[d].ph = "resume"
     /\ fr[Callee(d)].st = "done"
     /\ out' = [out EXCEPT ![r] = Flush(@, res[r])]
     /\ fr' = Settled(d, "done")
     /\ stack' = Popped
     /\ log' = Logged(r, "flush", d)
     /\ UNCHANGED <<cvars, routes, lastMatch, phase, middlewares, inbox, req, res, mq, snap>>

\* handleRequest after `await executeMiddleware(0)` rejected: it rejects too and
\* nothing is written
ResumeReject(r) ==
  LET d == <<r, "D", 0>>
  IN /\ Running(d) /\ fr[d].ph = "resume"
     /\ fr[Callee(d)].st = "failed"
     /\ fr' = Settled(d, "failed")
     /\ stack' = Popped
     /\ log' = Logged(r, "fail", d)
     /\ UNCHANGED <<cvars, routes, lastMatch, phase, middlewares, inbox, req, res, out, mq, snap>>

----------------------------------------------------------------------------
(* The statements of middleware steps and handlers *)

\* the effect of a Response Context call on statusCode, headers, responseBody
Written(rc, o) ==
  CASE o.op = "status"    -> Status(rc, o.code)
    [] o.op = "send"      -> Send(rc, o.v)
    [] o.op = "json"      -> Json(rc, <<o.k, o.v>>)
    [] o.op = "setHeader" -> SetHeader(rc, o.k, o.v)
    [] OTHER              -> rc

\* res.status / res.send / res.json / res.setHeader, or req.body = null
StepWrite(f) ==
  LET r == f[1]
      o == Prog(f)[fr[f].pc]
  IN /\ AtOp(f, {"status", "send", "json", "setHeader", "bodyNull"})
     /\ res' = [res EXCEPT ![r] = Written(@, o)]
     /\ req' = IF o.op = "bodyNull" THEN [req EXCEPT ![r].body = <<>>] ELSE req
     /\ fr' = [fr EXCEPT ![f].pc = @ + 1]
     /\ log' = Logged(r, "op", f)
     /\ UNCHANGED <<cvars, routes, lastMatch, phase, middlewares, inbox, out, stack, mq, snap>>

\* `next();`: executeMiddleware(index + 1) is called and its promise dropped
StepNext(f) ==
  LET e == Callee(f)
  IN /\ AtOp(f, {"next"})
     /\ fr[e].st = "idle"
     /\ fr' = [fr EXCEPT ![f].pc = @ + 1, ![e] = [FrameIdle EXCEPT !.st = "active"]]
     /\ stack' = Append(stack, e)
     /\ log' = Logged(f[1], "next", f)
     /\ UNCHANGED <<cvars, routes, lastMatch, phase, middlewares, inbox, req, res, out, mq, snap>>

\* `await next();`: executeMiddleware(index + 1) is called, its promise awaited
StepAwaitNext(f) ==
  LET e == Callee(f)
  IN /\ AtOp(f, {"awaitNext"})
     /\ fr[e].st = "idle"
     /\ fr' = [fr EXCEPT ![f].ph = "await", ![e] = [FrameIdle EXCEPT !.st = "active"]]
     /\ stack' = Append(stack, e)
     /\ log' = Logged(f[1], "next", f)
     /\ UNCHANGED <<cvars, routes, lastMatch, phase, middlewares, inbox, req, res, out, mq, snap>>

\* a step after `await next()`: it goes on, or rethrows the rejection
ResumeAfterNext(f) ==
  /\ Running(f) /\ f[2] = "M" /\ fr[f].ph = "resume"
  /\ IF fr[Callee(f)].st = "failed"
     THEN /\ fr' = Settled(f, "failed")
          /\ mq' = mq \o AsSeq(Waiters(f))
          /\ stack' = Popped
          /\ log' = Logged(f[1], "fail", f)
     ELSE /\ fr' = [fr EXCEPT ![f].pc = @ + 1, ![f].ph = "run"]
          /\ mq' = mq
          /\ stack' = stack
          /\ log' = log
  /\ UNCHANGED <<cvars, routes, lastMatch, phase, middlewares, inbox, req, res, out, snap>>

\* an await of a value that is already settled: the function suspends and its
\* continuation is queued as a microtask
StepTick(f) ==
  /\ AtOp(f, {"tick"})
  /\ fr' = [fr EXCEPT ![f].pc = @ + 1, ![f].st = "queued"]
  /\ mq' = Append(mq, f)
  /\ stack' = Popped
  /\ UNCHANGED <<cvars, routes, lastMatch, phase, middlewares, inbox, req, res, out, log, snap>>

\* an await of pending I/O (fs.stat, a timer, ...), or jsonMiddleware's await
\* of the promise its "end" listener resolves: the function suspends
StepSuspend(f) ==
  /\ AtOp(f, {"io", "awaitEnd"})
  /\ fr' = [fr EXCEPT ![f].pc = @ + 1, ![f].st = "blocked",
                      ![f].wait = IF Prog(f)[fr[f].pc].op = "io" THEN IoEvent ELSE EndEvent]
  /\ stack' = Popped
  /\ UNCHANGED <<cvars, routes, lastMatch, phase, middlewares, inbox, req, res, out, mq, log, snap>>

\* a throw that nothing in the function catches
StepThrow(f) ==
  /\ AtOp(f, {"throw"})
  /\ fr' = Settled(f, "failed")
  /\ mq' = mq \o AsSeq(Waiters(f))
  /\ stack' = Popped
  /\ log' = Logged(f[1], "fail", f)
  /\ UNCHANGED <<cvars, routes, lastMatch, phase, middlewares, inbox, req, res, out, snap>>

\* the end of the function body
StepReturn(f) ==
  LET r == f[1]
  IN /\ Running(f) /\ f[2] \in {"M", "H"} /\ fr[f].ph = "run"
     /\ fr[f].pc > Len(Prog(f))
     /\ fr' = Settled(f, "done")
     /\ mq' = mq \o AsSeq(Waiters(f))
     /\ stack' = Popped
     /\ log' = Logged(r, "end", f)
     /\ snap' = IF f[2] = "M" /\ ~CalledNext(r, f[3])
                THEN [snap EXCEPT ![r] = [set |-> TRUE, step |-> f[3], rc |-> res[r]]]
                ELSE snap
     /\ UNCHANGED <<cvars, routes, lastMatch, phase, middlewares, inbox, req, res, out>>

----------------------------------------------------------------------------
(* The event loop *)

\* the oldest microtask runs once the call stack is empty
RunMicrotask ==
  /\ stack = <<>> /\ mq # <<>>
  /\ stack' = <<Head(mq)>>
  /\ mq' = Tail(mq)
  /\ fr' = [fr EXCEPT ![Head(mq)].st = "active"]
  /\ UNCHANGED <<cvars, routes, lastMatch, phase, middlewares, inbox, req, res, out, log, snap>>

\* pending I/O completes (a macrotask): the awaiting function's continuation
\* is queued
IoComplete(f) ==
  /\ stack = <<>> /\ mq = <<>>
  /\ fr[f].st = "blocked" /\ fr[f].wait = IoEvent
  /\ fr' = [fr EXCEPT ![f].st = "queued", ![f].wait = NoFrame]
  /\ mq' = <<f>>
  /\ UNCHANGED <<cvars, routes, lastMatch, phase, middlewares, inbox, req, res, out, stack, log, snap>>

\* the "end" event of the request stream (a macrotask) with jsonMiddleware's
\* listener attached: `req.body = body ? JSON.parse(body) : null` and resolve(),
\* or, when JSON.parse throws, res.status(400).json({error: "Invalid JSON"}) and
\* a return that leaves the promise unresolved
RequestEnd(r, f) ==
  /\ stack = <<>> /\ mq = <<>>
  /\ f[1] = r
  /\ fr[f].st = "blocked" /\ fr[f].wait = EndEvent
  /\ ~req[r].ended
  /\ IF req[r].text = "" \/ JsonParses(req[r].text)
     THEN /\ req' = [req EXCEPT ![r].ended = TRUE,
                                ![r].body = IF req[r].text = "" THEN <<>> ELSE <<req[r].text>>]
          /\ res' = res
          /\ fr' = [fr EXCEPT ![f].st = "queued", ![f].wait = NoFrame]
          /\ mq' = <<f>>
          /\ log' = log
     ELSE /\ req' = [req EXCEPT ![r].ended = TRUE]
          /\ res' = [res EXCEPT ![r] = Json(Status(@, 400), <<"error", "Invalid JSON">>)]
          /\ fr' = [fr EXCEPT ![f].wait = Never]
          /\ mq' = mq
          /\ log' = Logged(r, "parseError", f)
  /\ UNCHANGED <<cvars, routes, lastMatch, phase, middlewares, inbox, out, stack, snap>>

----------------------------------------------------------------------------
(* Specification of the Dispatcher: one request through the chain *)

DispatchIdle ==
  /\ req = [r \in ReqIds |-> RequestNone]
  /\ res = [r \in ReqIds |-> ResponseNew]
  /\ out = [r \in ReqIds |-> TransportNew]
  /\ fr = [f \in Frames |-> FrameIdle]
  /\ stack = <<>>
  /\ mq = <<>>
  /\ log = [r \in ReqIds |-> <<>>]
  /\ snap = [r \in ReqIds |-> [set |-> FALSE, step |-> 0, rc |-> ResponseNew]]
  /\ calls = <<>>
  /\ rendering = <<>>
  /\ regs = <<>>

\* a constructed application with its routes registered, before any use();
\* the transport will deliver one request
Init ==
  /\ routes = AppRoutes
  /\ lastMatch = NoMatchCall
  /\ phase = "setup"
  /\ middlewares = <<>>
  /\ inbox = {1}
  /\ DispatchIdle

Next ==
  \/ \E kind \in MiddlewareKinds : Use(kind)
  \/ Listen
  \/ \E r \in ReqIds, in \in RequestPool : HandleRequest(r, in)
  \/ \E r \in ReqIds, i \in 0..(MaxMiddlewares + 1) : ExecuteStep(r, i)
  \/ \E r \in ReqIds, i \in 0..(MaxMiddlewares + 1) : ExecuteHandler(r, i)
  \/ \E r \in ReqIds, i \in 0..(MaxMiddlewares + 1) : ExecuteNotFound(r, i)
  \/ \E f \in Frames : AwaitCallee(f)
  \/ \E r \in ReqIds, i \in 0..(MaxMiddlewares + 1) : ResumeExecute(r, i)
  \/ \E r \in ReqIds : ResumeFlush(r)
  \/ \E r \in ReqIds : ResumeReject(r)
  \/ \E f \in Frames : StepWrite(f)
  \/ \E f \in Frames : StepNext(f)
  \/ \E f \in Frames : StepAwaitNext(f)
  \/ \E f \in Frames : ResumeAfterNext(f)
  \/ \E f \in Frames : StepTick(f)
  \/ \E f \in Frames : StepSuspend(f)
  \/ \E f \in Frames : StepThrow(f)
  \/ \E f \in Frames : StepReturn(f)
  \/ RunMicrotask
  \/ \E f \in Frames : IoComplete(f)
  \/ \E r \in ReqIds, f \in Frames : RequestEnd(r, f)

Spec == Init /\ [][Next]_vars

----------------------------------------------------------------------------
(* Specification of concurrent serving: two requests in flight on one event  *)
(* loop, against a route table and a middleware list fixed before listen()   *)

\* the middleware lists of the served application: a step that awaits its
\* continuation, or jsonMiddleware followed by a step that does not
ServedChains == { <<"onion">>, <<"json", "after">> }

\* the state once listen() was called and two requests are on their way
ServingInit ==
  /\ routes = AppRoutes
  /\ lastMatch = NoMatchCall
  /\ phase = "serving"
  /\ middlewares \in ServedChains
  /\ inbox = ReqIds
  /\ DispatchIdle

ServingNext ==
  \/ \E r \in ReqIds, in \in RequestPool : HandleRequest(r, in)
  \/ \E r \in ReqIds, i \in 0..(MaxMiddlewares + 1) : ExecuteStep(r, i)
  \/ \E r \in ReqIds, i \in 0..(MaxMiddlewares + 1) : ExecuteHandler(r, i)
  \/ \E r \in ReqIds, i \in 0..(MaxMiddlewares + 1) : ExecuteNotFound(r, i)
  \/ \E f \in Frames : AwaitCallee(f)
  \/ \E r \in ReqIds, i \in 0..(MaxMiddlewares + 1) : ResumeExecute(r, i)
  \/ \E r \in ReqIds : ResumeFlush(r)
  \/ \E r \in ReqIds : ResumeReject(r)
  \/ \E f \in Frames : StepWrite(f)
  \/ \E f \in Frames : StepNext(f)
  \/ \E f \in Frames : StepAwaitNext(f)
  \/ \E f \in Frames : ResumeAfterNext(f)
  \/ \E f \in Frames : StepTick(f)
  \/ \E f \in Frames : StepSuspend(f)
  \/ \E f \in Frames : StepThrow(f)
  \/ \E f \in Frames : StepReturn(f)
  \/ RunMicrotask
  \/ \E f \in Frames : IoComplete(f)
  \/ \E r \in ReqIds, f \in Frames : RequestEnd(r, f)

ConcurrentSpec == ServingInit /\ [][ServingNext]_vars

----------------------------------------------------------------------------
(* Specification of static serving: one request through a chain that holds   *)
(* staticMiddleware("p")                                                     *)

StaticChains == { <<"static">>, <<"logger", "static">>, <<"static", "after">> }

\* GET of "/", "/a.js", "/b.JS", "/r", "/k.css", "/d", "/d/", "/a.js/",
\* "/none.js", "/./a.js", "/../s.css"
StaticRequests ==
  { Incoming("GET", u, "", "") :
      u \in { <<"/">>,
              <<"/", "a", ".", "j", "s">>,
              <<"/", "b", ".", "J", "S">>,
              <<"/", "r">>,
              <<"/", "k", ".", "c", "s", "s">>,
              <<"/", "d">>,
              <<"/", "d", "/">>,
              <<"/", "a", ".", "j", "s", "/">>,
              <<"/", "n", "o", "n", "e", ".", "j", "s">>,
              <<"/", ".", "/", "a", ".", "j", "s">>,
              <<"/", ".", ".", "/", "s", ".", "c", "s", "s">> } }

StaticInit ==
  /\ routes = AppRoutes
  /\ lastMatch = NoMatchCall
  /\ phase = "serving"
  /\ middlewares \in StaticChains
  /\ inbox = {1}
  /\ DispatchIdle

StaticNext ==
  \/ \E r \in ReqIds, in \in StaticRequests : HandleRequest(r, in)
  \/ \E r \in ReqIds, i \in 0..(MaxMiddlewares + 1) : ExecuteStep(r, i)
  \/ \E r \in ReqIds, i \in 0..(MaxMiddlewares + 1) : ExecuteHandler(r, i)
  \/ \E r \in ReqIds, i \in 0..(MaxMiddlewares + 1) : ExecuteNotFound(r, i)
  \/ \E f \in Frames : AwaitCallee(f)
  \/ \E r \in ReqIds, i \in 0..(MaxMiddlewares + 1) : ResumeExecute(r, i)
  \/ \E r \in ReqIds : ResumeFlush(r)
  \/ \E f \in Frames : StepWrite(f)
  \/ \E f \in Frames : StepNext(f)
  \/ \E f \in Frames : StepSuspend(f)
  \/ \E f \in Frames : StepReturn(f)
  \/ RunMicrotask
  \/ \E f \in Frames : IoComplete(f)

StaticSpec == StaticInit /\ [][StaticNext]_vars

----------------------------------------------------------------------------
(* Inputs of the Router specification *)

\* patterns handed to register: "", "/", "/a", "/:x", "/a/", "/a/:x",
\* "/:y/a", "/:x/:y", "/:x/:x"
PatternPool ==
  { <<>>,
    <<"/">>,
    <<"/", "a">>,
    <<"/", ":", "x">>,
    <<"/", "a", "/">>,
    <<"/", "a", "/", ":", "x">>,
    <<"/", ":", "y", "/", "a">>,
    <<"/", ":", "x", "/", ":", "y">>,
    <<"/", ":", "x", "/", ":", "x">> }

\* paths handed to match: "", "/", "/a", "/b", "/a/", "/a/a", "/a/b", "/b/a"
UrlPool ==
  { <<>>,
    <<"/">>,
    <<"/", "a">>,
    <<"/", "b">>,
    <<"/", "a", "/">>,
    <<"/", "a", "/", "a">>,
    <<"/", "a", "/", "b">>,
    <<"/", "b", "/", "a">> }

\* methods handed to register and match; TRACE is outside the supported set
MethodPool == {"GET", "POST", "TRACE"}

HandlerPool == {"hA", "hB"}

TableSize(rt) == Len(rt["GET"]) + Len(rt["POST"])

----------------------------------------------------------------------------
(* Router specification: registrations in any order, then a match *)

RInit ==
  /\ routes = RouterNew
  /\ lastMatch = NoMatchCall
  /\ phase = "router"
  /\ middlewares = <<>>
  /\ inbox = {}
  /\ DispatchIdle

\* router.get / router.post / ... -> Router.register
Register(method, path, handler) ==
  /\ phase = "router"
  /\ TableSize(RegisterRoute(routes, method, path, handler)) <= MaxRoutes
  /\ routes' = RegisterRoute(routes, method, path, handler)
  /\ UNCHANGED <<cvars, lastMatch, phase, middlewares, dvars>>

\* a call of Router.match on the table as registered; the table is read-only
\* from then on (registration precedes serving)
MatchCall(method, url) ==
  /\ phase \in {"router", "registry"}
  /\ phase' = "lookup"
  /\ LET r == Match(routes, method, url)
     IN lastMatch' = [called |-> TRUE, method |-> method, url |-> url,
                      handler |-> r.handler, params |-> r.params]
  /\ UNCHANGED <<cvars, routes, middlewares, dvars>>

RNext ==
  \/ \E m \in MethodPool, p \in PatternPool, h \in HandlerPool : Register(m, p, h)
  \/ \E m \in MethodPool, u \in UrlPool : MatchCall(m, u)

RouterSpec == RInit /\ [][RNext]_vars

----------------------------------------------------------------------------
(* Registration specification: a recorded sequence of registrations, some of *)
(* them for a pair registered before, then a match                           *)

\* patterns registered and registered again: "/a", "/:x", "/b"
RegistryPatterns == { <<"/", "a">>, <<"/", ":", "x">>, <<"/", "b">> }

\* paths looked up: "/a", "/b", "/c"
RegistryUrls == { <<"/", "a">>, <<"/", "b">>, <<"/", "c">> }

RegistryMethods == {"GET", "POST"}

RegistryInit ==
  /\ routes = RouterNew
  /\ lastMatch = NoMatchCall
  /\ phase = "registry"
  /\ middlewares = <<>>
  /\ inbox = {}
  /\ DispatchIdle

\* router.get / router.post / ... -> Router.register, the call recorded
RegisterAgain(method, path, handler) ==
  /\ phase = "registry"
  /\ Len(regs) < MaxRegistrations
  /\ routes' = RegisterRoute(routes, method, path, handler)
  /\ regs' = Append(regs, <<method, path, handler>>)
  /\ UNCHANGED <<lastMatch, phase, middlewares, dvars, calls, rendering>>

RegistryNext ==
  \/ \E m \in RegistryMethods, p \in RegistryPatterns, h \in HandlerPool :
        RegisterAgain(m, p, h)
  \/ \E m \in RegistryMethods, u \in RegistryUrls : MatchCall(m, u)

RegistrySpec == RegistryInit /\ [][RegistryNext]_vars

----------------------------------------------------------------------------
(* Response Context specification: the calls a chain makes on one Response   *)
(* Context, the renders settling in between, and the read at the flush       *)

\* the calls steps and handlers make
CallPool ==
  { OStatus(201), OStatus(404),
    OSetHeader("X-A", "1"), OSetHeader("X-A", "2"),
    OSetHeader("Content-Type", "text/csv"),
    OSend("hi"), OJson("a", "1"),
    ORender("home"), ORender("missing"), ORender("broken") }

\* an executed call (or a settled render) as the history keeps it
Executed(o, promise) ==
  [op |-> o.op, code |-> o.code, k |-> o.k, v |-> o.v, promise |-> promise]

\* calls made so far: those executed and the renders still suspended
CallsMade == Cardinality({n \in 1..Len(calls) : calls[n].op # "read"}) + Len(rendering)

CInit ==
  /\ routes = RouterNew
  /\ lastMatch = NoMatchCall
  /\ phase = "context"
  /\ middlewares = <<>>
  /\ inbox = {}
  /\ DispatchIdle

\* responseContext.status / json / send / setHeader
ContextCall(o) ==
  /\ phase = "context"
  /\ o.op \in {"status", "json", "send", "setHeader"}
  /\ CallsMade < MaxCalls
  /\ res' = [res EXCEPT ![1] = Written(@, o)]
  /\ calls' = Append(calls, Executed(o, "none"))
  /\ UNCHANGED <<routes, lastMatch, phase, middlewares, inbox, req, out, fr, stack, mq,
                 log, snap, rendering, regs>>

\* responseContext.render up to its await: the engine is called; if it throws
\* the catch branch runs within the call, otherwise render suspends
RenderCall(o) ==
  LET engine == TemplateEngine(o.k)
  IN /\ phase = "context"
     /\ o.op = "render"
     /\ CallsMade < MaxCalls
     /\ IF engine.how = "throws"
        THEN /\ res' = [res EXCEPT ![1] = RenderSettled(@, engine).rc]
             /\ calls' = Append(calls, Executed(Op("renderFailed", 0, o.k, engine.text),
                                                RenderSettled(res[1], engine).promise))
             /\ rendering' = rendering
        ELSE /\ res' = res
             /\ calls' = calls
             /\ rendering' = Append(rendering, o.k)
     /\ UNCHANGED <<routes, lastMatch, phase, middlewares, inbox, req, out, fr, stack, mq,
                    log, snap, regs>>

\* responseContext.render after its await: the engine's promise settled (the
\* reads complete in any order) and the try or the catch branch writes
RenderSettle(i) ==
  LET tpl == rendering[i]
      engine == TemplateEngine(tpl)
      done == RenderSettled(res[1], engine)
  IN /\ phase = "context"
     /\ i \in 1..Len(rendering)
     /\ res' = [res EXCEPT ![1] = done.rc]
     /\ calls' = Append(calls,
                   Executed(Op(IF engine.how = "rejects" THEN "renderFailed" ELSE "rendered",
                               0, tpl, engine.text), done.promise))
     /\ rendering' = SubSeq(rendering, 1, i - 1) \o SubSeq(rendering, i + 1, Len(rendering))
     /\ UNCHANGED <<routes, lastMatch, phase, middlewares, inbox, req, out, fr, stack, mq,
                    log, snap, regs>>

\* the end of handleRequest: statusCode, headers and responseBody are read and
\* handed to the ServerResponse
ReadAndFlush ==
  /\ phase = "context"
  /\ out[1].end = 0
  /\ out' = [out EXCEPT ![1] = Flush(@, res[1])]
  /\ calls' = Append(calls, Executed(Op("read", 0, "", ""), "none"))
  /\ UNCHANGED <<routes, lastMatch, phase, middlewares, inbox, req, res, fr, stack, mq,
                 log, snap, rendering, regs>>

CNext ==
  \/ \E o \in CallPool : ContextCall(o)
  \/ \E o \in CallPool : RenderCall(o)
  \/ \E i \in 1..MaxCalls : RenderSettle(i)
  \/ ReadAndFlush

ResponseSpec == CInit /\ [][CNext]_vars

----------------------------------------------------------------------------
(* Claims about Router.match *)

\* the entries registered for the method of the last match call
CalledEntries ==
  IF lastMatch.method \in DOMAIN routes THEN routes[lastMatch.method] ELSE <<>>

IsParamSeg(seg) == Len(seg) > 0 /\ seg[1] = ":"

\* same segment count, and every literal segment equals the path's segment
Structural(pattern, url) ==
  LET ps == Split(pattern)
      us == Split(url)
  IN /\ Len(ps) = Len(us)
     /\ \A n \in 1..Len(ps) : ~IsParamSeg(ps[n]) => ps[n] = us[n]

ParamPositions(pattern) ==
  {n \in 1..Len(Split(pattern)) : IsParamSeg(Split(pattern)[n])}

AllLiteral(pattern) == ParamPositions(pattern) = {}

\* P is the first registered pattern of the method that matches structurally
IsFirstStructural(i) ==
  /\ i \in 1..Len(CalledEntries)
  /\ Structural(CalledEntries[i].path, lastMatch.url)
  /\ \A k \in 1..(i - 1) : ~Structural(CalledEntries[k].path, lastMatch.url)

C8_FirstRegisteredWins ==
  lastMatch.called =>
    \A i, j \in 1..Len(CalledEntries) :
      ( /\ i < j
        /\ IsFirstStructural(i)
        /\ Structural(CalledEntries[j].path, lastMatch.url)
        /\ AllLiteral(CalledEntries[i].path) # AllLiteral(CalledEntries[j].path) )
      => /\ lastMatch.handler = CalledEntries[i].handler
         /\ DOMAIN lastMatch.params # {} <=> ~AllLiteral(CalledEntries[i].path)

\* C8 witness: the pattern with a parameter was registered before the literal
\* one and shadows it
C8_Witness ==
  /\ lastMatch.called
  /\ Len(CalledEntries) = 2
  /\ ~AllLiteral(CalledEntries[1].path)
  /\ AllLiteral(CalledEntries[2].path)
  /\ Structural(CalledEntries[1].path, lastMatch.url)
  /\ Structural(CalledEntries[2].path, lastMatch.url)
  /\ CalledEntries[1].handler # CalledEntries[2].handler
  /\ lastMatch.handler = CalledEntries[1].handler

\* C9: when the path's segment count differs from the segment count of every
\* pattern registered for the method, match returns no handler (and no
\* params), whatever the segments are.
C9_SegmentCountMismatch ==
  ( /\ lastMatch.called
    /\ \A i \in 1..Len(CalledEntries) :
         Len(Split(CalledEntries[i].path)) # Len(Split(lastMatch.url)) )
  => /\ lastMatch.handler = NoHandler
     /\ lastMatch.params = EmptyMap

\* C9 witness: "/a/" looked up in a table that holds "/a" for the method
C9_Witness ==
  /\ lastMatch.called
  /\ lastMatch.url = <<"/", "a", "/">>
  /\ \E i \in 1..Len(CalledEntries) : CalledEntries[i].path = <<"/", "a">>
  /\ \A i \in 1..Len(CalledEntries) :
       Len(Split(CalledEntries[i].path)) # Len(Split(lastMatch.url))
  /\ lastMatch.handler = NoHandler

----------------------------------------------------------------------------
(* Claims about the Dispatcher and the middleware chain *)

Flushed(r) == out[r].end > 0

\* the middleware steps and the handler of a request
Participants(r) == {f \in Frames : f[1] = r /\ f[2] \in {"M", "H"}}

Unfinished(f) == fr[f].st \in {"active", "blocked", "queued"}

HasEvent(r, ev) == \E n \in 1..Len(log[r]) : log[r][n] = ev

ParseFailed(r) == \E n \in 1..Len(log[r]) : log[r][n][1] = "parseError"

IsStart(ev) == ev[1] = "start"

\* the call stack and the microtask queue are empty
LoopIdle == stack = <<>> /\ mq = <<>>

\* nothing is running, queued, or waiting for an event that can still happen
Quiescent ==
  /\ LoopIdle
  /\ inbox = {}
  /\ \A f \in Frames :
       fr[f].st = "blocked" =>
         /\ fr[f].wait # IoEvent
         /\ fr[f].wait = EndEvent => req[f[1]].ended

\* C1: when the response is flushed, every middleware step and handler that was
\* started has completed, and no chain participant starts or writes to the
\* Response Context after the flush (so the flushed response holds the
\* handler's writes).
C1_FlushAfterChainCompletes ==
  \A r \in ReqIds :
    /\ Flushed(r) => \A f \in Participants(r) : ~Unfinished(f)
    /\ \A n, m \in 1..Len(log[r]) :
         (n < m /\ log[r][n][1] = "flush") => log[r][m][1] \notin {"start", "op"}

\* C2: once step k has returned without invoking its continuation, no later
\* step, no handler and no 404 fallback executes, and what is flushed is the
\* Response Context as it was when step k returned.
C2_ShortCircuitIsFinal ==
  \A r \in ReqIds :
    snap[r].set =>
      /\ \A f \in Participants(r) :
           (f[2] = "H" \/ f[3] > snap[r].step) => fr[f].st = "idle"
      /\ ~HasEvent(r, <<"start", "NF", 0>>)
      /\ Flushed(r) =>
           /\ out[r].statusCode = snap[r].rc.statusCode
           /\ out[r].headers = snap[r].rc.headers
           /\ out[r].body = snap[r].rc.body

\* C3: a request is never flushed more than once (one writeHead, one end,
\* one flush step); it is flushed only after executeMiddleware(0) completed;
\* once executeMiddleware(0) has completed the flush happens before the event
\* loop runs out of work; and what is handed over is the status, headers and
\* body of the Response Context as read at the flush.
C3_FlushedExactlyOnce ==
  \A r \in ReqIds :
    /\ out[r].writeHead <= 1 /\ out[r].end <= 1
    /\ out[r].writeHead = out[r].end
    /\ Cardinality({n \in 1..Len(log[r]) : log[r][n][1] = "flush"}) = out[r].end
    /\ Flushed(r) => fr[<<r, "E", 0>>].st = "done"
    /\ (fr[<<r, "E", 0>>].st = "done" /\ LoopIdle) => out[r].end = 1
    /\ fr[<<r, "D", 0>>].st = "done" => out[r].end = 1
    /\ (Flushed(r) /\ log[r][Len(log[r])][1] = "flush") =>
         /\ out[r].statusCode = res[r].statusCode
         /\ out[r].headers = res[r].headers
         /\ out[r].body = res[r].body

\* C3 witness: a request flushed once after a short-circuiting step
C3_Witness ==
  /\ snap[1].set
  /\ out[1].end = 1
  /\ out[1].statusCode = 401
  /\ fr[<<1, "D", 0>>].st = "done"

\* C4: when jsonMiddleware fails to parse a JSON body, the request ends with
\* a flushed response of status 400 whose body is the error JSON: once nothing
\* is left to run or to wait for, that response has been flushed.
C4_ParseFailureFlushes400 ==
  \A r \in ReqIds :
    (ParseFailed(r) /\ Quiescent) =>
      /\ out[r].end = 1
      /\ out[r].statusCode = 400
      /\ out[r].body = <<JsonStringify(<<"error", "Invalid JSON">>)>>

\* C5: the chain participants of a request start in registration order, step
\* 0 first, each next one only after the step before it invoked its
\* continuation, and the handler or the 404 fallback only after every step;
\* none is skipped or reordered (steps invoke their continuation at most once).
C5_RegistrationOrder ==
  \A r \in ReqIds :
    \A p \in 1..Len(log[r]) :
      IsStart(log[r][p]) =>
        LET before == Cardinality({q \in 1..(p - 1) : IsStart(log[r][q])})
        IN /\ IF before < Len(middlewares)
              THEN log[r][p] = <<"start", "M", before>>
              ELSE before = Len(middlewares) /\ log[r][p][2] \in {"H", "NF"}
           /\ before > 0 =>
                \E q \in 1..(p - 1) : log[r][q] = <<"next", "M", before - 1>>

\* C5 witness: two steps and then the handler have started
C5_Witness ==
  /\ Len(middlewares) = 2
  /\ HasEvent(1, <<"start", "M", 1>>)
  /\ HasEvent(1, <<"start", "H", 0>>)

\* C6: after a step has invoked its continuation it executes no further
\* statement until every step and handler started downstream of it has
\* completed.
C6_NoInterleaving ==
  \A r \in ReqIds :
    \A p, q \in 1..Len(log[r]) :
      ( /\ p < q
        /\ log[r][p][1] = "next"
        /\ log[r][q] = <<"op", log[r][p][2], log[r][p][3]>> )
      => \A s \in (p + 1)..(q - 1) :
           (IsStart(log[r][s]) /\ log[r][s][2] \in {"M", "H"}) =>
             \E e \in (s + 1)..(q - 1) :
               /\ log[r][e][1] \in {"end", "fail"}
               /\ log[r][e][2] = log[r][s][2]
               /\ log[r][e][3] = log[r][s][3]

\* C10: when a request reaches the end of the chain and matches no route, no
\* handler is invoked and the flushed response has status 404 and the body
\* "Not Found".
C10_NotFoundIsFlushed ==
  \A r \in ReqIds :
    HasEvent(r, <<"start", "NF", 0>>) =>
      /\ fr[<<r, "H", 0>>].st = "idle"
      /\ Flushed(r) => (out[r].statusCode = 404 /\ out[r].body = <<"Not Found">>)

\* route matching of the request has happened (handler or 404 fallback reached)
RouteMatched(r) ==
  HasEvent(r, <<"start", "H", 0>>) \/ HasEvent(r, <<"start", "NF", 0>>)

\* C11: the params of the Request Context are empty until route matching (so
\* while every middleware step runs ahead of it), and once the matched handler
\* has been invoked they are the mapping `match` produces for the request:
\* GET /users/42 against GET /users/:id gives the handler {id: "42"}.
C11_ParamsAtHandler ==
  \A r \in ReqIds :
    /\ ~RouteMatched(r) => req[r].params = EmptyMap
    /\ HasEvent(r, <<"start", "H", 0>>) =>
         req[r].params = Match(routes, req[r].method, req[r].url).params
    /\ ( /\ HasEvent(r, <<"start", "H", 0>>)
         /\ req[r].method = "GET"
         /\ req[r].url = <<"/", "u", "s", "e", "r", "s", "/", "4", "2">> )
       => /\ DOMAIN req[r].params = {<<"i", "d">>}
          /\ req[r].params[<<"i", "d">>] = <<"4", "2">>

\* C11 witness: GET /users/42 has passed two steps and its handler was invoked
\* with {id: "42"}
C11_Witness ==
  /\ Len(middlewares) = 2
  /\ HasEvent(1, <<"end", "M", 0>>)
  /\ HasEvent(1, <<"start", "H", 0>>)
  /\ KindOf(<<1, "H", 0>>) = "user"
  /\ req[1].params = [k \in {<<"i", "d">>} |-> <<"4", "2">>]

----------------------------------------------------------------------------
(* Claims about the Response Context *)

\* where the history holds the read of the flush (0: not read yet)
ReadPos ==
  IF \E n \in 1..Len(calls) : calls[n].op = "read"
  THEN CHOOSE n \in 1..Len(calls) : calls[n].op = "read"
  ELSE 0

\* the calls executed before the read
BeforeRead == SubSeq(calls, 1, ReadPos - 1)

\* the last position of a history that satisfies Test (0: none)
LastPos(h, Test(_)) ==
  IF \E n \in 1..Len(h) : Test(h[n])
  THEN CHOOSE n \in 1..Len(h) : Test(h[n]) /\ \A m \in (n + 1)..Len(h) : ~Test(h[m])
  ELSE 0

\* an executed call sets the status code: status(code), or a render that failed
SetsStatus(e) == e.op \in {"status", "renderFailed"}
StatusSet(e) == IF e.op = "status" THEN e.code ELSE 500

\* the header key an executed call sets, and the value it sets it to
HeaderKeySet(e) ==
  CASE e.op = "setHeader" -> {e.k}
    [] e.op \in {"json", "rendered", "renderFailed"} -> {"Content-Type"}
    [] OTHER -> {}
HeaderValueSet(e) ==
  CASE e.op = "setHeader"    -> e.v
    [] e.op = "json"         -> "application/json"
    [] e.op = "rendered"     -> "text/html"
    [] e.op = "renderFailed" -> "text/plain"

LastStatusSet(h) ==
  LET p == LastPos(h, SetsStatus) IN IF p = 0 THEN 200 ELSE StatusSet(h[p])

KeysSet(h) == UNION {HeaderKeySet(h[n]) : n \in 1..Len(h)}

LastValueSet(h, key) ==
  LET sets(e) == key \in HeaderKeySet(e) IN HeaderValueSet(h[LastPos(h, sets)])

\* C12: whatever sequence of calls was executed on the Response Context before
\* the read of the flush, the flushed status code is the last one set (200 if
\* none was set) and the flushed headers are, for each key that was set, the
\* value set last (by setHeader, or by json / render for Content-Type).
C12_LastSetWins ==
  ReadPos > 0 =>
    /\ out[1].statusCode = LastStatusSet(BeforeRead)
    /\ DOMAIN out[1].headers = KeysSet(BeforeRead)
    /\ \A key \in KeysSet(BeforeRead) :
         out[1].headers[key] = LastValueSet(BeforeRead, key)

\* C12 witness: setHeader was called twice for one key with different values
\* and status once in between; the read handed over the later header value and
\* the status set
C12_Witness ==
  /\ ReadPos = 4
  /\ calls[1].op = "setHeader" /\ calls[3].op = "setHeader"
  /\ calls[1].k = calls[3].k /\ calls[1].v # calls[3].v
  /\ calls[2].op = "status"
  /\ out[1].statusCode = calls[2].code
  /\ out[1].headers[calls[3].k] = calls[3].v

\* a terminal, body-producing call as executed: send, json, or a render at the
\* time it writes
IsTerminal(e) == e.op \in {"send", "json", "rendered", "renderFailed"}

\* the body a terminal call writes
BodyWritten(e) ==
  CASE e.op = "send"         -> e.v
    [] e.op = "json"         -> JsonStringify(<<e.k, e.v>>)
    [] e.op = "rendered"     -> e.v
    [] e.op = "renderFailed" -> "Error rendering template: " \o e.v

\* the Response Context after one more executed call
Apply(rc, e) ==
  CASE e.op = "status"       -> Status(rc, e.code)
    [] e.op = "setHeader"    -> SetHeader(rc, e.k, e.v)
    [] e.op = "send"         -> Send(rc, e.v)
    [] e.op = "json"         -> Json(rc, <<e.k, e.v>>)
    [] e.op = "rendered"     -> RenderSuccess(rc, e.v)
    [] e.op = "renderFailed" -> RenderFailure(rc, e.v)

\* a fresh Response Context after the calls of h
RECURSIVE Replay(_)
Replay(h) ==
  IF h = <<>> THEN ResponseNew
  ELSE Apply(Replay(SubSeq(h, 1, Len(h) - 1)), h[Len(h)])

\* h without its terminal calls, except the last of them
RECURSIVE DropFrom(_, _, _)
DropFrom(h, n, keep) ==
  IF n > Len(h) THEN <<>>
  ELSE (IF IsTerminal(h[n]) /\ n # keep THEN <<>> ELSE <<h[n]>>) \o DropFrom(h, n + 1, keep)

LastTerminalAlone(h) == DropFrom(h, 1, LastPos(h, IsTerminal))

ContentType(headers) ==
  IF "Content-Type" \in DOMAIN headers THEN headers["Content-Type"] ELSE "(none)"

\* C13 as stated: when terminal calls were executed before the read, the
\* flushed body and Content-Type are those the last of them alone would have
\* produced: what the calls yield with the earlier terminal calls left out.
C13_LastTerminalAlone ==
  (ReadPos > 0 /\ LastPos(BeforeRead, IsTerminal) > 0) =>
    LET alone == Replay(LastTerminalAlone(BeforeRead))
    IN /\ out[1].body = alone.body
       /\ ContentType(out[1].headers) = ContentType(alone.headers)

\* C13 amended: when terminal calls were executed before the read, the flushed
\* body is the body of the last of them only (bodies are never combined), and
\* the flushed Content-Type is the one set last before the read, also when an
\* earlier terminal call set it and the last one (send) sets none.
C13_LastBodyWins ==
  (ReadPos > 0 /\ LastPos(BeforeRead, IsTerminal) > 0) =>
    LET last == BeforeRead[LastPos(BeforeRead, IsTerminal)]
    IN /\ out[1].body = <<BodyWritten(last)>>
       /\ IF "Content-Type" \in KeysSet(BeforeRead)
          THEN ContentType(out[1].headers) = LastValueSet(BeforeRead, "Content-Type")
          ELSE ContentType(out[1].headers) = "(none)"

\* C13 witness: json, then send, then the read: the body of send was flushed
\* under the Content-Type of json
C13_Witness ==
  /\ ReadPos = 3
  /\ calls[1].op = "json"
  /\ calls[2].op = "send"
  /\ out[1].body = <<calls[2].v>>
  /\ ContentType(out[1].headers) = "application/json"

SameButFor(key, before, after) ==
  /\ DOMAIN before \ {key} = DOMAIN after \ {key}
  /\ \A k \in DOMAIN before \ {key} : after[k] = before[k]

\* what executing the call e changed from Response Context `a` to `b`
FrameOf(e, a, b) ==
  /\ e.op = "send" =>
       /\ b.body = <<e.v>>
       /\ b.statusCode = a.statusCode
       /\ b.headers = a.headers
  /\ e.op = "status" =>
       /\ b.statusCode = e.code
       /\ b.headers = a.headers
       /\ b.body = a.body
  /\ e.op = "setHeader" =>
       /\ e.k \in DOMAIN b.headers /\ b.headers[e.k] = e.v
       /\ SameButFor(e.k, a.headers, b.headers)
       /\ b.statusCode = a.statusCode
       /\ b.body = a.body
  /\ e.op = "json" =>
       /\ b.body = <<JsonStringify(<<e.k, e.v>>)>>
       /\ ContentType(b.headers) = "application/json"
       /\ SameButFor("Content-Type", a.headers, b.headers)
       /\ b.statusCode = a.statusCode

\* C19: each call on the Response Context changes only its own field: send
\* the body (status and all headers stay), status the status code (headers
\* and body stay, nothing is flushed), setHeader(k, v) the header k (status,
\* body and the other headers stay), json the body and Content-Type.
C19_FrameEffects ==
  [][ Len(calls') = Len(calls) + 1 =>
        /\ FrameOf(calls'[Len(calls')], res[1], res'[1])
        /\ calls'[Len(calls')].op \in {"status", "send", "setHeader", "json"} => out' = out
    ]_vars

\* C19 witness: status(201), json, then send: the body is the text of send,
\* the status and the Content-Type of json are still there
C19_Witness ==
  /\ Len(calls) = 3
  /\ calls[1].op = "status" /\ calls[2].op = "json" /\ calls[3].op = "send"
  /\ res[1].body = <<calls[3].v>>
  /\ res[1].statusCode = calls[1].code
  /\ ContentType(res[1].headers) = "application/json"

----------------------------------------------------------------------------
(* Claims about failures and concurrent requests *)

\* a middleware step or the handler of the request raised a failure
ParticipantFailed(r) ==
  \E n \in 1..Len(log[r]) : log[r][n][1] = "fail" /\ log[r][n][2] \in {"M", "H"}

\* C15: once a middleware step or the handler of a request has failed, the
\* response of the request is not flushed, and when nothing is left to run the
\* chain invocation of handleRequest has failed with it.
C15_FailurePropagates ==
  \A r \in ReqIds :
    ParticipantFailed(r) =>
      /\ ~Flushed(r)
      /\ Quiescent => /\ fr[<<r, "E", 0>>].st = "failed"
                      /\ fr[<<r, "D", 0>>].st = "failed"

\* the statements of a step or handler that write to a context
IsWrite(o) == o.op \in {"status", "send", "json", "setHeader", "bodyNull"}
WriteOps(f) == SelectSeq(Prog(f), IsWrite)

\* the Response Context after the n-th event of the request's own history
OwnEffect(r, n, rc) ==
  LET ev == log[r][n]
      nth == Cardinality({m \in 1..n : log[r][m] = ev})
  IN CASE ev[1] = "op" -> Written(rc, WriteOps(<<r, ev[2], ev[3]>>)[nth])
       [] ev = <<"start", "NF", 0>> -> Send(Status(rc, 404), "Not Found")
       [] ev[1] = "parseError" -> Json(Status(rc, 400), <<"error", "Invalid JSON">>)
       [] OTHER -> rc

\* a fresh Response Context after the first n events of the request's own history
RECURSIVE OwnWrites(_, _)
OwnWrites(r, n) ==
  IF n = 0 THEN ResponseNew ELSE OwnEffect(r, n, OwnWrites(r, n - 1))

FlushPos(r) == CHOOSE n \in 1..Len(log[r]) : log[r][n][1] = "flush"

\* C16: with two requests in flight on a fixed route table and middleware
\* list, each request's Response Context holds exactly the writes of its own
\* steps, its flushed status, headers and body are those own writes as they
\* stood at its flush, and the params and body of its Request Context come
\* from its own path and payload: nothing written for one request shows in
\* the other.
C16_RequestsIsolated ==
  \A r \in ReqIds :
    /\ res[r] = OwnWrites(r, Len(log[r]))
    /\ Flushed(r) =>
         LET own == OwnWrites(r, FlushPos(r) - 1)
         IN /\ out[r].statusCode = own.statusCode
            /\ out[r].headers = own.headers
            /\ out[r].body = own.body
    /\ HasEvent(r, <<"start", "H", 0>>) =>
         req[r].params = Match(routes, req[r].method, req[r].url).params
    /\ ~RouteMatched(r) => req[r].params = EmptyMap
    /\ req[r].body \in {<<>>, <<req[r].text>>}

\* C16 witness: while the handler of request 1 (GET /slow) is suspended,
\* request 2 (GET /users/42) was served and flushed with its own params, and
\* request 1's contexts show none of it
C16_Witness ==
  /\ fr[<<1, "H", 0>>].st = "blocked"
  /\ KindOf(<<1, "H", 0>>) = "slow"
  /\ Flushed(2)
  /\ out[2].body = <<"user">>
  /\ req[2].params = [k \in {<<"i", "d">>} |-> <<"4", "2">>]
  /\ req[1].params = EmptyMap
  /\ res[1].body = <<>>
  /\ ~Flushed(1)

----------------------------------------------------------------------------
(* Claims about registering a pair again *)

\* the registrations of the pair (method, path), oldest first
RegsOf(method, path) ==
  {n \in 1..Len(regs) : regs[n][1] = method /\ regs[n][2] = path}

\* the handler of the most recent registration of the pair
LastRegistered(method, path) ==
  regs[CHOOSE n \in RegsOf(method, path) : \A k \in RegsOf(method, path) : k <= n][3]

\* C17: however often a (method, pattern) pair was registered, the table
\* holds exactly one entry for it, with the handler of the most recent
\* registration; a match won by the pattern returns that handler.
C17_LastRegistrationReplaces ==
  /\ \A n \in 1..Len(regs) :
       LET method == regs[n][1]
           path == regs[n][2]
           at == {i \in 1..Len(routes[method]) : routes[method][i].path = path}
       IN /\ Cardinality(at) = 1
          /\ \A i \in at : routes[method][i].handler = LastRegistered(method, path)
  /\ lastMatch.called =>
       \A i \in 1..Len(CalledEntries) :
         IsFirstStructural(i) =>
           lastMatch.handler = LastRegistered(lastMatch.method, CalledEntries[i].path)

\* C17 witness: a pair was registered with one handler and then with another,
\* and a match won by its pattern returned the second
C17_Witness ==
  /\ lastMatch.called
  /\ \E a, b \in 1..Len(regs) :
       /\ a < b
       /\ regs[a][1] = lastMatch.method /\ regs[b][1] = lastMatch.method
       /\ regs[a][2] = regs[b][2]
       /\ regs[a][3] # regs[b][3]
       /\ RegsOf(regs[b][1], regs[b][2]) = {a, b}
       /\ \E i \in 1..Len(CalledEntries) :
            IsFirstStructural(i) /\ CalledEntries[i].path = regs[b][2]
       /\ lastMatch.handler = regs[b][3]

\* the patterns registered for the method among the first n registrations,
\* in the order of their first registration
RECURSIVE FirstRegistered(_, _)
FirstRegistered(method, n) ==
  IF n = 0 THEN <<>>
  ELSE LET sofar == FirstRegistered(method, n - 1)
       IN IF regs[n][1] = method /\ \A i \in 1..Len(sofar) : sofar[i] # regs[n][2]
          THEN Append(sofar, regs[n][2])
          ELSE sofar

\* C20: after any sequence of registrations the patterns of a method stand in
\* the order of their first registration (registering a pair again does not
\* move it), each with the handler of its last registration, and a match goes
\* to the structurally matching pattern that was first registered earliest.
C20_FirstRegistrationOrder ==
  /\ \A method \in RegistryMethods :
       LET order == FirstRegistered(method, Len(regs))
       IN /\ Len(routes[method]) = Len(order)
          /\ \A i \in 1..Len(order) :
               /\ routes[method][i].path = order[i]
               /\ routes[method][i].handler = LastRegistered(method, order[i])
  /\ lastMatch.called =>
       LET order == FirstRegistered(lastMatch.method, Len(regs))
           hits == {i \in 1..Len(order) : Structural(order[i], lastMatch.url)}
       IN IF hits = {} THEN lastMatch.handler = NoHandler
          ELSE lastMatch.handler =
                 LastRegistered(lastMatch.method,
                                order[CHOOSE i \in hits : \A k \in hits : i <= k])

\* C20 witness: "/:x" was registered, then "/a", then "/:x" again; "/:x" is
\* still first and wins the match of "/a"
C20_Witness ==
  /\ lastMatch.called
  /\ lastMatch.method = "GET"
  /\ lastMatch.url = <<"/", "a">>
  /\ Len(regs) = 3
  /\ regs[1] = <<"GET", <<"/", ":", "x">>, "hA">>
  /\ regs[2] = <<"GET", <<"/", "a">>, "hB">>
  /\ regs[3] = <<"GET", <<"/", ":", "x">>, "hA">>
  /\ routes["GET"][1].path = <<"/", ":", "x">>
  /\ lastMatch.handler = "hA"

----------------------------------------------------------------------------
(* Claims about staticMiddleware *)

CountOf(r, ev) == Cardinality({n \in 1..Len(log[r]) : log[r][n] = ev})

\* the path lies under the configured root
UnderRoot(path) ==
  /\ Len(path.segs) > 1
  /\ path.segs[1] = StaticRoot
  /\ \A n \in 1..Len(path.segs) : path.segs[n] # <<".", ".">>

\* the request path resolves to a regular file under the configured root,
\* and the file can be read
ResolvesToFile(rq) ==
  LET path == PathJoin(StaticRoot, rq.url)
  IN UnderRoot(path) /\ Stat(path) = "file" /\ FileAt(path.segs).readable

\* C18: a staticMiddleware step never both writes and continues, and once it
\* has returned it did exactly one of two things: the request path resolves
\* to a regular file under the root, and it set Content-Type and the file's
\* contents as body without invoking next (nothing downstream ran); or, in
\* every other case, it wrote nothing and invoked next exactly once.
C18_StaticServesOrContinues ==
  \A r \in ReqIds :
    \A i \in 0..(Len(middlewares) - 1) :
      middlewares[i + 1] = "static" =>
        LET writes == CountOf(r, <<"op", "M", i>>)
            nexts == CountOf(r, <<"next", "M", i>>)
        IN /\ nexts <= 1
           /\ writes > 0 => nexts = 0
           /\ HasEvent(r, <<"end", "M", i>>) =>
                IF ResolvesToFile(req[r])
                THEN /\ writes = 2 /\ nexts = 0
                     /\ fr[<<r, "E", i + 1>>].st = "idle"
                     /\ snap[r].set /\ snap[r].step = i
                     /\ "Content-Type" \in DOMAIN snap[r].rc.headers
                     /\ snap[r].rc.body =
                          <<FileAt(PathJoin(StaticRoot, req[r].url).segs).content>>
                ELSE writes = 0 /\ nexts = 1

====
